---- MODULE Spec2Model ----
(***************************************************************************)
(* A model of src/src/XMLReader.cpp: removeCommonPath, findOrCreateFile,   *)
(* parseGamelist, addFileDataNode and updateGamelist.                      *)
(*                                                                         *)
(* A path (boost::filesystem::path) is the sequence of the elements its    *)
(* iterator yields: the root ("/" or a drive such as "D:") first when the  *)
(* path is absolute, then one name per component.  <<>> is the empty path. *)
(***************************************************************************)
EXTENDS Integers, Sequences, FiniteSets, TLC

VARIABLES
    cwd,      \* the process's current directory (relative paths resolve here)
    entries,  \* the FileData arena: entries[1] is the system's root folder
    doc,      \* the persisted gamelist: [status, elems]
    last,     \* the operation that ran last, with its inputs and results
    steps,    \* operations run so far, where a specification counts them
    rcpIn,    \* removeCommonPath called on its own: [path, relativeTo]
    rcpOut    \* ... and what it returned

vars == <<cwd, entries, doc, last, steps, rcpIn, rcpOut>>

-----------------------------------------------------------------------------
(* The disk.                                                               *)

RootNames == {"/", "D:"}

Dirs ==
    { <<"/">>, <<"/", "nes">>, <<"/", "nes", "foo">>,
      <<"/", "nes", "foo", "bar">>, <<"/", "out">>, <<"D:">> }

Files ==
    { <<"/", "nes", "a.nes">>, <<"/", "nes", "foo", "bar", "c.nes">>,
      <<"/", "out", "z.nes">>, <<"D:", "x.nes">> }

\* symbolic links: the link's own (canonical) location, and where it points
LinkTarget(p) ==
    CASE p = <<"/", "nes", "lnk">> -> <<"/", "nes", "a.nes">>
      [] p = <<"/", "nes", "esc">> -> <<"/", "out">>
      [] p = <<"/", "lnes">>       -> <<"/", "nes">>
      [] OTHER                      -> <<>>

Cwds == { <<"/">>, <<"/", "out">> }

\* boost::filesystem::absolute: a relative path is taken from the current directory
Absolute(path) ==
    IF path = <<>> THEN <<>>
    ELSE IF Head(path) \in RootNames THEN path
    ELSE cwd \o path

\* the walk of fs::canonical: acc is the resolved (symlink-free) prefix.
\* <<>> stands for the filesystem_error it throws when a component is missing.
RECURSIVE Resolve(_, _)
Resolve(acc, rest) ==
    IF rest = <<>> THEN acc
    ELSE LET c == Head(rest)
             cand == Append(acc, c)
         IN  IF c = "." THEN Resolve(acc, Tail(rest))
             ELSE IF c = ".."
               THEN Resolve(IF Len(acc) > 1 THEN SubSeq(acc, 1, Len(acc) - 1) ELSE acc,
                            Tail(rest))
             ELSE IF LinkTarget(cand) # <<>> THEN Resolve(LinkTarget(cand), Tail(rest))
             ELSE IF cand \in Dirs \cup Files THEN Resolve(cand, Tail(rest))
             ELSE <<>>

\* fs::canonical(path): absolute, no symlink, no "." or ".."; <<>> when it throws
Canonical(path) ==
    LET a == Absolute(path)
    IN  IF a = <<>> THEN <<>> ELSE Resolve(<<Head(a)>>, Tail(a))

\* fs::exists(path)
Exists(path) == Canonical(path) # <<>>

\* fs::equivalent(a, b), called only on existing paths
Equivalent(a, b) == Canonical(a) = Canonical(b)

-----------------------------------------------------------------------------
(* removeCommonPath (lines 11-49).                                         *)

\* what *itr reads: the element at i, or, when itr is the end iterator,
\* whatever the build leaves there (g)
Deref(p, i, g) == IF i <= Len(p) THEN p[i] ELSE g

\* the loop of line 27 stopping one element short of the root's end
RECURSIVE DivergeShort(_, _, _, _, _)
DivergeShort(p, r, i, gp, gr) ==
    IF Deref(p, i, gp) = Deref(r, i, gr) /\ i <= Len(p) /\ i < Len(r)
    THEN DivergeShort(p, r, i + 1, gp, gr)
    ELSE i

\* the loop of line 27: the index both iterators stop at
RECURSIVE Diverge(_, _, _, _, _)
Diverge(p, r, i, gp, gr) ==
    IF Deref(p, i, gp) = Deref(r, i, gr) /\ i <= Len(p) /\ i <= Len(r)
    THEN Diverge(p, r, i + 1, gp, gr)
    ELSE i

\* removeCommonPath on the paths as given, no symlink or ".." resolved
removeCommonPathAsGiven(path, relativeTo, gp, gr) ==
    LET p == IF Exists(path) THEN Absolute(path) ELSE <<>>
        r == IF Exists(relativeTo) THEN Absolute(relativeTo) ELSE <<>>
    IN  IF p = <<>> \/ r = <<>>
        THEN [threw |-> TRUE, contains |-> FALSE, result |-> <<>>, oob |-> FALSE]
        ELSE IF Head(p) # Head(r)
        THEN [threw |-> FALSE, contains |-> FALSE, result |-> p, oob |-> FALSE]
        ELSE LET i == Diverge(p, r, 1, gp, gr)
                 past == i > Len(p) \/ i > Len(r)
             IN  IF i <= Len(r)
                 THEN [threw |-> FALSE, contains |-> FALSE, result |-> p, oob |-> past]
                 ELSE [threw |-> FALSE, contains |-> TRUE,
                       result |-> SelectSeq(SubSeq(p, i, Len(p)), LAMBDA c : c # "."),
                       oob |-> past]

removeCommonPath(path, relativeTo, gp, gr) ==
    LET p == Canonical(path)
        r == Canonical(relativeTo)
    IN  IF p = <<>> \/ r = <<>>
        THEN [threw |-> TRUE, contains |-> FALSE, result |-> <<>>, oob |-> FALSE]
        ELSE IF Head(p) # Head(r)
        THEN [threw |-> FALSE, contains |-> FALSE, result |-> p, oob |-> FALSE]
        ELSE LET i == Diverge(p, r, 1, gp, gr)
                 past == i > Len(p) \/ i > Len(r)
             IN  IF i <= Len(r)
                 THEN [threw |-> FALSE, contains |-> FALSE, result |-> p, oob |-> past]
                 ELSE [threw |-> FALSE, contains |-> TRUE,
                       result |-> SelectSeq(SubSeq(p, i, Len(p)), LAMBDA c : c # "."),
                       oob |-> past]

\* values a read of the end iterator may give
Garbage == {"", "nes"}

\* every result a call may give, whatever the end iterators read
RcpOutcomes(path, relativeTo) ==
    { removeCommonPath(path, relativeTo, gp, gr) : gp \in Garbage, gr \in Garbage }

RcpPaths ==
    { <<"/", "nes", "a.nes">>, <<"/", "nes", "lnk">>, <<"/", "nes", "foo", "bar", "c.nes">>,
      <<"/", "nes", "foo">>, <<"/", "nes">>, <<"/">>, <<"/", "out", "z.nes">>, <<"/", "out">>,
      <<"/", "nes", "esc", "z.nes">>, <<"/", "nes", "..", "out", "z.nes">>,
      <<"/", "nes", "foo", "..", "a.nes">>, <<"/", "nes", ".", "a.nes">>,
      <<"/", "lnes", "a.nes">>, <<"/", "lnes", "foo", "bar">>, <<"D:", "x.nes">>,
      <<"nes", "foo">>, <<"z.nes">>, <<"/", "nes", "gone.nes">> }

RcpRoots ==
    { <<"/", "nes">>, <<"/", "lnes">>, <<"/", "nes", ".">>, <<"/", "nes", "foo">>,
      <<"/", "lnes", "foo", "bar">>, <<"/", "out">>, <<"/", "nes", "esc">>, <<"/">>,
      <<"D:">>, <<"nes">> }

NoCall == [path |-> <<>>, relativeTo |-> <<>>]
NoResult == [threw |-> FALSE, contains |-> FALSE, result |-> <<>>, oob |-> FALSE, done |-> FALSE]

InitRcp ==
    /\ cwd \in Cwds
    /\ entries = <<>>
    /\ doc = [status |-> "absent", elems |-> <<>>]
    /\ last = [op |-> "none"]
    /\ steps = 0
    /\ rcpIn \in [path : RcpPaths, relativeTo : RcpRoots]
    /\ rcpOut = NoResult

CallRemoveCommonPath ==
    /\ ~rcpOut.done
    /\ \E gp \in Garbage, gr \in Garbage :
         LET o == removeCommonPath(rcpIn.path, rcpIn.relativeTo, gp, gr)
         IN  rcpOut' = [threw |-> o.threw, contains |-> o.contains, result |-> o.result,
                        oob |-> o.oob, done |-> TRUE]
    /\ UNCHANGED <<cwd, entries, doc, last, steps, rcpIn>>

NextRcp == CallRemoveCommonPath

SpecRcp == InitRcp /\ [][NextRcp]_vars

-----------------------------------------------------------------------------
(* FileData and findOrCreateFile (lines 51-118).                           *)

GAME == "GAME"
FOLDER == "FOLDER"

\* a FileData* result: an index into entries, NULL, or the exception thrown
NULL == 0
THREW == -1

\* the system's start path, the root folder's path
StartPath == <<"/", "nes">>

\* path.filename(): the last element
Filename(path) == IF path = <<>> THEN "" ELSE path[Len(path)]

\* path.stem(): the filename without its extension
Stem(name) ==
    CASE name = "a.nes"    -> "a"
      [] name = "c.nes"    -> "c"
      [] name = "z.nes"    -> "z"
      [] name = "x.nes"    -> "x"
      [] name = "gone.nes" -> "gone"
      [] OTHER             -> name

\* the name an entry gets from its path when it has none
getCleanFileName(path) == Stem(Filename(path))

\* the metadata a FileData is constructed with: defaults, and the name from the path
DefaultMeta(path) == [name |-> getCleanFileName(path), desc |-> ""]

FileData(type, path, parent) ==
    [type |-> type, path |-> path, parent |-> parent, meta |-> DefaultMeta(path)]

RootFolder == FileData(FOLDER, StartPath, 0)

\* getChildren(): addChild appends, so a node's children are in creation order
Children(ents, node) == { c \in 1..Len(ents) : ents[c].parent = node }

Min(S) == CHOOSE x \in S : \A y \in S : x <= y

\* the first child of node whose path's filename is name; NULL when none (lines 69-79)
FindChild(ents, node, name) ==
    LET match == { c \in Children(ents, node) : Filename(ents[c].path) = name }
    IN  IF match = {} THEN NULL ELSE Min(match)

\* the path an intermediate folder is created with (line 109)
FolderPath(ents, node, name) == <<Stem(Filename(ents[node].path)), name>>

\* the loop of lines 67-115 without the checks of lines 87 and 102: a Folder
\* request creates what it does not find
RECURSIVE DescendAnyType(_, _, _, _, _, _)
DescendAnyType(ents, relative, k, treeNode, path, type) ==
    IF k > Len(relative) THEN [ret |-> NULL, entries |-> ents]
    ELSE LET child == FindChild(ents, treeNode, relative[k])
             found == child # NULL
         IN  IF k = Len(relative)
             THEN IF found THEN [ret |-> child, entries |-> ents]
                  ELSE [ret |-> Len(ents) + 1,
                        entries |-> Append(ents, FileData(type, path, treeNode))]
             ELSE IF ~found
             THEN DescendAnyType(Append(ents, FileData(FOLDER,
                                                       FolderPath(ents, treeNode, relative[k]),
                                                       treeNode)),
                                 relative, k + 1, Len(ents) + 1, path, type)
             ELSE DescendAnyType(ents, relative, k + 1, child, path, type)

\* the loop of lines 67-115, at component k of relative, standing on treeNode
RECURSIVE Descend(_, _, _, _, _, _)
Descend(ents, relative, k, treeNode, path, type) ==
    IF k > Len(relative) THEN [ret |-> NULL, entries |-> ents]
    ELSE LET child == FindChild(ents, treeNode, relative[k])
             found == child # NULL
         IN  IF k = Len(relative)
             THEN IF found THEN [ret |-> child, entries |-> ents]
                  ELSE IF type = FOLDER THEN [ret |-> NULL, entries |-> ents]
                  ELSE [ret |-> Len(ents) + 1,
                        entries |-> Append(ents, FileData(type, path, treeNode))]
             ELSE IF ~found
             THEN IF type = FOLDER THEN [ret |-> NULL, entries |-> ents]
                  ELSE Descend(Append(ents, FileData(FOLDER,
                                                     FolderPath(ents, treeNode, relative[k]),
                                                     treeNode)),
                               relative, k + 1, Len(ents) + 1, path, type)
             ELSE Descend(ents, relative, k + 1, child, path, type)

\* rc: what the call of removeCommonPath at line 57 returned
findOrCreateFile(ents, path, type, rc) ==
    IF rc.threw THEN [ret |-> THREW, entries |-> ents]
    ELSE IF ~rc.contains THEN [ret |-> NULL, entries |-> ents]
    ELSE Descend(ents, rc.result, 1, 1, path, type)

\* every result of findOrCreateFile(system, path, type) on the tree ents
FindOrCreateOutcomes(ents, path, type) ==
    { findOrCreateFile(ents, path, type, rc) : rc \in RcpOutcomes(path, ents[1].path) }

-----------------------------------------------------------------------------
(* The gamelist document.  An element is [tag, kids]; a kid is one child   *)
(* node: a key with its text.  The text of a path child is kept in the     *)
(* field path, as the string's names and separators in order, e.g.         *)
(* <<"/", "nes", "/", "a.nes">> for /nes/a.nes.                            *)

PathKid(text) == [key |-> "path", text |-> "", path |-> text]
MetaKid(key, text) == [key |-> key, text |-> text, path |-> <<>>]

\* names joined by the separator
RECURSIVE Join(_)
Join(names) ==
    IF Len(names) <= 1 THEN names
    ELSE <<Head(names), "/">> \o Join(Tail(names))

\* path.generic_string(): the root, then the names with "/" between them
GenericString(path) ==
    IF path = <<>> THEN <<>>
    ELSE IF Head(path) \in RootNames THEN <<Head(path)>> \o Join(Tail(path))
    ELSE Join(path)

\* the names of a string, its separators dropped
RECURSIVE Split(_)
Split(text) ==
    IF text = <<>> THEN <<>>
    ELSE IF Head(text) = "/" THEN Split(Tail(text))
    ELSE <<Head(text)>> \o Split(Tail(text))

\* fs::path(string): the elements its iterator yields
ParsePath(text) ==
    IF text = <<>> THEN <<>>
    ELSE IF Head(text) \in RootNames THEN <<Head(text)>> \o Split(Tail(text))
    ELSE Split(text)

\* node.child(key): the index of the first kid with that key, 0 when none
ChildIndex(kids, key) ==
    LET at == { i \in 1..Len(kids) : kids[i].key = key }
    IN  IF at = {} THEN 0 ELSE Min(at)

\* fileNode.child("path").text().get() as a path: empty when there is no such child
PathOfNode(elem) ==
    LET i == ChildIndex(elem.kids, "path")
    IN  IF i = 0 THEN <<>> ELSE ParsePath(elem.kids[i].path)

\* node.child(key).text().get(), or the key's default ("") when there is no such child
TextOfChild(elem, key) ==
    LET i == ChildIndex(elem.kids, key)
    IN  IF i = 0 THEN "" ELSE elem.kids[i].text

\* MetaDataList::createFromXML: every declared key, from its child or its default
createFromXML(elem) ==
    [name |-> TextOfChild(elem, "name"), desc |-> TextOfChild(elem, "desc")]

\* MetaDataList::appendToXML(node, true): the declared keys in order, defaults skipped
appendToXML(meta) ==
    (IF meta.name = "" THEN <<>> ELSE <<MetaKid("name", meta.name)>>)
    \o (IF meta.desc = "" THEN <<>> ELSE <<MetaKid("desc", meta.desc)>>)

-----------------------------------------------------------------------------
(* parseGamelist (lines 120-177).                                          *)

\* lines 169-174 without lines 173-174: the parsed metadata as it is
LoadMetaAsParsed(old, elem) == createFromXML(elem)

\* lines 169-174: the parsed metadata, the name kept when the element gives none
LoadMeta(old, elem) ==
    LET new == createFromXML(elem)
    IN  IF new.name = "" THEN [new EXCEPT !.name = old.name] ELSE new

\* lines 161-174 for one element: the tree after it
ParseNode(f, elem) ==
    IF f.ret = NULL \/ f.ret = THREW THEN f.entries
    ELSE [f.entries EXCEPT ![f.ret].meta = LoadMeta(@, elem)]

\* the loop of line 151 leaving the pass at line 158 instead of going on
RECURSIVE ParseTagStopping(_, _, _, _, _)
ParseTagStopping(ents, elems, i, tag, type) ==
    IF i > Len(elems) THEN {ents}
    ELSE IF elems[i].tag # tag THEN ParseTagStopping(ents, elems, i + 1, tag, type)
    ELSE LET path == PathOfNode(elems[i])
         IN  IF ~Exists(path) THEN {ents}
             ELSE UNION { ParseTagStopping(ParseNode(f, elems[i]), elems, i + 1, tag, type) :
                            f \in FindOrCreateOutcomes(ents, path, type) }

\* line 151: the elements of one tag in document order, from element i on;
\* the set of trees the pass may leave
RECURSIVE ParseTag(_, _, _, _, _)
ParseTag(ents, elems, i, tag, type) ==
    IF i > Len(elems) THEN {ents}
    ELSE IF elems[i].tag # tag THEN ParseTag(ents, elems, i + 1, tag, type)
    ELSE LET path == PathOfNode(elems[i])
         IN  IF ~Exists(path) THEN ParseTag(ents, elems, i + 1, tag, type)
             ELSE UNION { ParseTag(ParseNode(f, elems[i]), elems, i + 1, tag, type) :
                            f \in FindOrCreateOutcomes(ents, path, type) }

\* parseGamelist with the two tags of line 145 in the other order
parseGamelistFoldersFirst(ents, d) ==
    IF d.status # "ok" THEN {ents}
    ELSE UNION { ParseTag(folders, d.elems, 1, "game", GAME) :
                   folders \in ParseTag(ents, d.elems, 1, "folder", FOLDER) }

\* parseGamelist going on with what load_file left when it reported an error
parseGamelistUnchecked(ents, d) ==
    IF d.status \notin {"ok", "malformed"} THEN {ents}
    ELSE UNION { ParseTag(games, d.elems, 1, "folder", FOLDER) :
                   games \in ParseTag(ents, d.elems, 1, "game", GAME) }

\* the trees parseGamelist may leave: the games first, then the folders
parseGamelist(ents, d) ==
    IF d.status # "ok" THEN {ents}
    ELSE UNION { ParseTag(games, d.elems, 1, "folder", FOLDER) :
                   games \in ParseTag(ents, d.elems, 1, "game", GAME) }

-----------------------------------------------------------------------------
(* addFileDataNode and updateGamelist (lines 199-306).                     *)

\* lines 207-209: the freshly written node says nothing but the default name
OnlyDefaultName(kids, path) ==
    /\ Len(kids) >= 1 /\ kids[1].key = "name"
    /\ Len(kids) = 1
    /\ kids[1].text = getCleanFileName(path)

addFileDataNode(elems, file, tag) ==
    LET kids == appendToXML(file.meta)
    IN  IF OnlyDefaultName(kids, file.path) THEN elems
        ELSE Append(elems, [tag  |-> tag,
                            kids |-> <<PathKid(GenericString(file.path))>> \o kids])

\* line 286
SamePath(nodePath, gamePath) ==
    \/ nodePath = gamePath
    \/ (Exists(nodePath) /\ Exists(gamePath) /\ Equivalent(nodePath, gamePath))

\* lines 275-292 removing, on a match, the first element of the tag
RemoveFirstOfTag(elems, file, tag) ==
    LET hit == { i \in 1..Len(elems) :
                   /\ elems[i].tag = tag
                   /\ ChildIndex(elems[i].kids, "path") # 0
                   /\ SamePath(PathOfNode(elems[i]), file.path) }
        first == Min({ i \in 1..Len(elems) : elems[i].tag = tag })
    IN  IF hit = {} THEN elems
        ELSE SubSeq(elems, 1, first - 1) \o SubSeq(elems, first + 1, Len(elems))

\* lines 275-292: the first element of the tag whose path is the file's is removed
RemoveFirstMatch(elems, file, tag) ==
    LET hit == { i \in 1..Len(elems) :
                   /\ elems[i].tag = tag
                   /\ ChildIndex(elems[i].kids, "path") # 0
                   /\ SamePath(PathOfNode(elems[i]), file.path) }
    IN  IF hit = {} THEN elems
        ELSE SubSeq(elems, 1, Min(hit) - 1) \o SubSeq(elems, Min(hit) + 1, Len(elems))

\* getFilesRecursive(GAME | FOLDER): every entry below node, parents before children
RECURSIVE FilesOf(_, _)
FilesOf(ents, kids) ==
    IF kids = {} THEN <<>>
    ELSE LET k == Min(kids)
         IN  <<k>> \o FilesOf(ents, Children(ents, k)) \o FilesOf(ents, kids \ {k})

getFilesRecursive(ents) == FilesOf(ents, Children(ents, 1))

TagOf(file) == IF file.type = GAME THEN "game" ELSE "folder"

\* the loop of lines 269-298 over files, from position i on
RECURSIVE UpdateNodes(_, _, _, _)
UpdateNodes(elems, ents, files, i) ==
    IF i > Len(files) THEN elems
    ELSE LET file == ents[files[i]]
         IN  UpdateNodes(addFileDataNode(RemoveFirstMatch(elems, file, TagOf(file)),
                                         file, TagOf(file)),
                         ents, files, i + 1)

\* updateGamelist writing the tree into an empty document, the old one not read
updateGamelistAnew(ents, d, dis, ign, io) ==
    IF dis \/ ign THEN d
    ELSE IF d.status \in {"malformed", "noroot"} THEN d
    ELSE LET new == UpdateNodes(<<>>, ents, getFilesRecursive(ents), 1)
         IN  IF io THEN [status |-> "ok", elems |-> new] ELSE d

\* updateGamelist reading DisableGamelistWrites only at line 227
updateGamelistIgnoreUnread(ents, d, dis, ign, io) ==
    IF dis THEN d
    ELSE IF d.status \in {"malformed", "noroot"} THEN d
    ELSE LET old == IF d.status = "absent" THEN <<>> ELSE d.elems
             new == UpdateNodes(old, ents, getFilesRecursive(ents), 1)
         IN  IF io THEN [status |-> "ok", elems |-> new] ELSE d

\* the document updateGamelist leaves; io: whether save_file could write
updateGamelist(ents, d, dis, ign, io) ==
    IF dis \/ ign THEN d
    ELSE IF d.status \in {"malformed", "noroot"} THEN d
    ELSE LET old == IF d.status = "absent" THEN <<>> ELSE d.elems
             new == UpdateNodes(old, ents, getFilesRecursive(ents), 1)
         IN  IF io THEN [status |-> "ok", elems |-> new] ELSE d

-----------------------------------------------------------------------------
(* The system: a gamelist on disk, the tree, and the operations on them.   *)

MaxDoc == 2       \* elements of the gamelist the program starts with
MaxEntries == 5   \* entries of the tree, the root included
MaxSteps == 4     \* operations of a run that edits the tree

Elem(tag, path, kids) == [tag |-> tag, kids |-> <<PathKid(GenericString(path))>> \o kids]

\* the elements a gamelist may start with
DocElems ==
    { Elem("game", <<"/", "nes", "a.nes">>, <<MetaKid("name", "a")>>),
      Elem("game", <<"/", "nes", "lnk">>, <<MetaKid("desc", "d")>>),
      Elem("game", <<"/", "nes", "foo", "bar", "c.nes">>, <<MetaKid("name", "X")>>),
      Elem("game", <<"/", "nes", "foo", "bar", "c.nes">>, <<MetaKid("desc", "d")>>),
      Elem("folder", <<"/", "nes", "foo">>, <<MetaKid("desc", "d")>>),
      [tag |-> "game", kids |-> <<MetaKid("desc", "d"),
                                  PathKid(GenericString(<<"/", "nes", "gone.nes">>))>>],
      Elem("game", <<"/", "out", "z.nes">>, <<MetaKid("name", "X")>>),
      [tag |-> "game", kids |-> <<MetaKid("name", "X")>>] }

SeqsUpTo(S, n) == UNION { [1..k -> S] : k \in 0..n }

\* the gamelist on disk: none; one with no <gameList>; one load_file parsed;
\* one load_file gave up on, the document holding what was parsed before the error
Docs ==
    { [status |-> st, elems |-> <<>>] : st \in {"absent", "noroot"} }
    \cup { [status |-> "ok", elems |-> es] : es \in SeqsUpTo(DocElems, MaxDoc) }
    \cup { [status |-> "malformed", elems |-> es] : es \in SeqsUpTo(DocElems, 1) }

\* the paths findOrCreateFile is called with
CallPaths ==
    { <<"/", "nes", "a.nes">>, <<"/", "nes", "lnk">>, <<"/", "nes", "foo", "bar", "c.nes">>,
      <<"/", "nes", "foo">>, <<"/", "nes">>, <<"/", "out", "z.nes">>,
      <<"/", "nes", "gone.nes">> }

\* the values metadata is edited to
NameValues == {"", "X"}
DescValues == {"", "d"}

NoOp == [op |-> "none", path |-> <<>>, type |-> GAME, ret |-> NULL,
         dis |-> FALSE, ign |-> FALSE, io |-> TRUE]

\* a call findOrCreateFile(system, path, type)
DoFindOrCreate ==
    \E path \in CallPaths, type \in {GAME, FOLDER} :
        \E f \in FindOrCreateOutcomes(entries, path, type) :
            /\ Len(f.entries) <= MaxEntries
            /\ entries' = f.entries
            /\ last' = [NoOp EXCEPT !.op = "foc", !.path = path, !.type = type, !.ret = f.ret]
            /\ UNCHANGED <<cwd, doc, rcpIn, rcpOut>>

\* a call parseGamelist(system)
DoLoad ==
    \E ents \in parseGamelist(entries, doc) :
        /\ Len(ents) <= MaxEntries
        /\ entries' = ents
        /\ last' = [NoOp EXCEPT !.op = "load"]
        /\ UNCHANGED <<cwd, doc, rcpIn, rcpOut>>

\* a call updateGamelist(system), under the settings read at line 227;
\* whether the file can be written matters only when the write is attempted
DoSave ==
    \E dis \in BOOLEAN, ign \in BOOLEAN :
        \E io \in IF dis \/ ign THEN {TRUE} ELSE BOOLEAN :
            /\ doc' = updateGamelist(entries, doc, dis, ign, io)
            /\ last' = [NoOp EXCEPT !.op = "save", !.dis = dis, !.ign = ign, !.io = io]
            /\ UNCHANGED <<cwd, entries, rcpIn, rcpOut>>

\* the user edits an entry's metadata: file->metadata.set(key, value)
DoSetMeta ==
    \E e \in 2..Len(entries) :
        /\ \/ \E v \in NameValues : entries' = [entries EXCEPT ![e].meta.name = v]
           \/ \E v \in DescValues : entries' = [entries EXCEPT ![e].meta.desc = v]
        /\ entries' # entries
        /\ last' = [NoOp EXCEPT !.op = "set", !.ret = e]
        /\ UNCHANGED <<cwd, doc, rcpIn, rcpOut>>

\* the catalog's life: a gamelist on disk, loaded and saved
Init ==
    /\ cwd \in Cwds
    /\ entries = <<RootFolder>>
    /\ doc \in Docs
    /\ last = NoOp
    /\ steps = 0
    /\ rcpIn = NoCall
    /\ rcpOut = NoResult

Load == DoLoad /\ UNCHANGED steps

Save == DoSave /\ UNCHANGED steps

Next == Load \/ Save

Spec == Init /\ [][Next]_vars

\* the tree alone, built by calls of findOrCreateFile
InitTree ==
    /\ cwd \in Cwds
    /\ entries = <<RootFolder>>
    /\ doc = [status |-> "absent", elems |-> <<>>]
    /\ last = NoOp
    /\ steps = 0
    /\ rcpIn = NoCall
    /\ rcpOut = NoResult

FindOrCreate == DoFindOrCreate /\ UNCHANGED steps

NextTree == FindOrCreate

SpecTree == InitTree /\ [][NextTree]_vars

\* the tree built by calls of findOrCreateFile and by loads of a gamelist of
\* at most one element
InitBuild ==
    /\ cwd \in Cwds
    /\ entries = <<RootFolder>>
    /\ doc \in { d \in Docs : d.status = "ok" /\ Len(d.elems) <= 1 }
    /\ last = NoOp
    /\ steps = 0
    /\ rcpIn = NoCall
    /\ rcpOut = NoResult

NextBuild == FindOrCreate \/ Load

SpecBuild == InitBuild /\ [][NextBuild]_vars

\* a system with no gamelist yet: entries are found, edited and saved, in
\* runs of at most MaxSteps operations
Counted == steps < MaxSteps /\ steps' = steps + 1

EditFind == Counted /\ DoFindOrCreate

EditSet == Counted /\ DoSetMeta

EditSave == Counted /\ DoSave

NextEdit == EditFind \/ EditSet \/ EditSave

SpecEdit == InitTree /\ [][NextEdit]_vars

-----------------------------------------------------------------------------
(* Containment, stated on the canonical forms.                             *)

IsPrefix(r, p) == Len(r) <= Len(p) /\ SubSeq(p, 1, Len(r)) = r

StrictlyInside(p, r) == IsPrefix(r, p) /\ Len(p) > Len(r)

\* C8: for every existing path whose canonical form is strictly inside the
\* canonical root, removeCommonPath reports contains = true and returns a
\* relative path that, joined onto the canonical root, is the canonical path.
C8_InsideContained ==
    (/\ rcpOut.done
     /\ Exists(rcpIn.path) /\ Exists(rcpIn.relativeTo)
     /\ StrictlyInside(Canonical(rcpIn.path), Canonical(rcpIn.relativeTo)))
    => (/\ ~rcpOut.threw
        /\ rcpOut.contains
        /\ Canonical(rcpIn.relativeTo) \o rcpOut.result = Canonical(rcpIn.path))

\* an inside path reached through a symlink or a ".." segment, against a
\* root that is itself given through a symlink
C8_Witness ==
    /\ rcpOut.done /\ rcpOut.contains /\ rcpOut.result # <<>>
    /\ rcpIn.path # Canonical(rcpIn.path)
    /\ rcpIn.relativeTo # Canonical(rcpIn.relativeTo)
    /\ StrictlyInside(Canonical(rcpIn.path), Canonical(rcpIn.relativeTo))

\* C9: for every existing path whose canonical form is not inside the
\* canonical root (a sibling subtree, a proper ancestor of the root, a path
\* escaping through ".." or a symlink, another filesystem root),
\* removeCommonPath reports contains = false.
C9_OutsideNotContained ==
    (/\ rcpOut.done
     /\ Exists(rcpIn.path) /\ Exists(rcpIn.relativeTo)
     /\ ~IsPrefix(Canonical(rcpIn.relativeTo), Canonical(rcpIn.path)))
    => (~rcpOut.threw /\ ~rcpOut.contains)

\* a path that is textually under the root and escapes it through a symlink
C9_Witness ==
    /\ rcpOut.done /\ ~rcpOut.threw /\ ~rcpOut.contains
    /\ IsPrefix(rcpIn.relativeTo, rcpIn.path)
    /\ Head(Canonical(rcpIn.path)) = Head(Canonical(rcpIn.relativeTo))
    /\ ~IsPrefix(Canonical(rcpIn.relativeTo), Canonical(rcpIn.path))

-----------------------------------------------------------------------------
(* The tree, as the claims speak of it.                                    *)

\* the file names on the way from the root down to entry e
RECURSIVE Position(_, _)
Position(ents, e) ==
    IF e <= 1 THEN <<>>
    ELSE Append(Position(ents, ents[e].parent), Filename(ents[e].path))

\* the canonical path below the canonical root
RelativeOf(path, root) ==
    SubSeq(Canonical(path), Len(Canonical(root)) + 1, Len(Canonical(path)))

InsideRoot(path) ==
    Exists(path) /\ StrictlyInside(Canonical(path), Canonical(StartPath))

\* some entry stands where path leads
EntryAt(ents, path) ==
    /\ Exists(path)
    /\ IsPrefix(Canonical(StartPath), Canonical(path))
    /\ \E e \in 1..Len(ents) : Position(ents, e) = RelativeOf(path, StartPath)

\* C1: findOrCreate is idempotent for Game paths: for every existing path
\* inside the system root, a second call with the same path returns the
\* Entry the first call returned and adds no Entry to the tree.
C1_Idempotent ==
    [][ (/\ last.op = "foc" /\ last.type = GAME
         /\ last'.op = "foc" /\ last'.type = GAME
         /\ last'.path = last.path
         /\ InsideRoot(last.path))
        => (last'.ret = last.ret /\ entries' = entries) ]_vars

\* C2: findOrCreate with kind Folder on an existing path where no Entry
\* stands (the last or an intermediate component is missing from the tree)
\* returns null and leaves the tree as it was.
C2_FolderNeverCreates ==
    [][ (/\ last'.op = "foc" /\ last'.type = FOLDER
         /\ Exists(last'.path)
         /\ ~EntryAt(entries, last'.path))
        => (last'.ret = NULL /\ entries' = entries) ]_vars

\* a Folder request below the root, through a folder the tree does not have,
\* on a tree that already holds entries
C2_Witness ==
    /\ last.op = "foc" /\ last.type = FOLDER /\ last.ret = NULL
    /\ InsideRoot(last.path)
    /\ Len(RelativeOf(last.path, StartPath)) > 1
    /\ ~EntryAt(entries, last.path)
    /\ Len(entries) > 1

\* C10: every Entry other than the root (created games, and the folders
\* created on the way to them, at every depth) has a path whose canonical
\* form is a strict descendant of the root's canonical path.
C10_EntriesInsideRoot ==
    \A e \in 2..Len(entries) : InsideRoot(entries[e].path)

-----------------------------------------------------------------------------
(* The document, as the claims speak of it.                                *)

Wrote(l) == l.op = "save" /\ ~l.dis /\ ~l.ign /\ l.io

HasPath(elem) == \E i \in 1..Len(elem.kids) : elem.kids[i].key = "path"

\* the path an element names: the names of its first path child's text
NamedPath(elem) ==
    LET i == CHOOSE i \in 1..Len(elem.kids) :
                 /\ elem.kids[i].key = "path"
                 /\ \A j \in 1..(i - 1) : elem.kids[j].key # "path"
    IN  ParsePath(elem.kids[i].path)

\* an Entry of the tree matches the element: same tag, and the same path,
\* textually or as a file on disk
Matched(elem, ents) ==
    /\ HasPath(elem)
    /\ \E e \in 2..Len(ents) :
         /\ TagOf(ents[e]) = elem.tag
         /\ \/ ents[e].path = NamedPath(elem)
            \/ /\ Exists(ents[e].path) /\ Exists(NamedPath(elem))
               /\ Canonical(ents[e].path) = Canonical(NamedPath(elem))

Stale(elem) == HasPath(elem) /\ ~Exists(NamedPath(elem))

\* the metadata children that say something: not the path, not an empty
\* text, not the name the path gives anyway
Informative(elem) ==
    { <<elem.kids[i].key, elem.kids[i].text>> : i \in
        { j \in 1..Len(elem.kids) :
            /\ elem.kids[j].key # "path"
            /\ elem.kids[j].text # ""
            /\ ~(elem.kids[j].key = "name" /\ HasPath(elem)
                 /\ elem.kids[j].text = getCleanFileName(NamedPath(elem))) } }

PathsOf(elems) == { NamedPath(elems[i]) : i \in { j \in 1..Len(elems) : HasPath(elems[j]) } }

MetaAt(elems, path) ==
    { Informative(elems[i]) : i \in { j \in 1..Len(elems) :
                                         HasPath(elems[j]) /\ NamedPath(elems[j]) = path } }

\* the paths whose elements carry non-default metadata
Telling(elems) == { path \in PathsOf(elems) : MetaAt(elems, path) # {{}} }

\* C3: round trip: a load followed by a save, with no change of the tree
\* between them, leaves a document with the same path values and, for every
\* path, the same non-default metadata as before.  An element that says
\* nothing but the name its path gives carries no non-default metadata, and
\* its path is allowed to go (default elision, C5): no path is added, every
\* path with non-default metadata stays, with the same non-default metadata.
C3_RoundTrip ==
    [][ (last.op = "load" /\ doc.status = "ok" /\ Wrote(last'))
        => (/\ doc'.status = "ok"
            /\ PathsOf(doc'.elems) \subseteq PathsOf(doc.elems)
            /\ Telling(doc.elems) \subseteq PathsOf(doc'.elems)
            /\ \A path \in PathsOf(doc'.elems) :
                 MetaAt(doc'.elems, path) = MetaAt(doc.elems, path)) ]_vars

\* C4: once save has written the document, a second save with nothing
\* changed in between leaves the document as it is.
C4_SaveStable ==
    [][ (Wrote(last) /\ Wrote(last')) => doc' = doc ]_vars

\* C6: every element of the old document that no Entry of the tree matches
\* is in the saved document, in the same order and with the same content.
C6_LegacyKept ==
    [][ last'.op = "save"
        => SelectSeq(doc'.elems, LAMBDA x : ~Matched(x, entries))
             = SelectSeq(doc.elems, LAMBDA x : ~Matched(x, entries)) ]_vars

\* a written document that keeps an element no Entry matches, next to an
\* element written for an Entry
C6_Witness ==
    /\ Wrote(last) /\ doc.status = "ok"
    /\ \E i \in 1..Len(doc.elems) : ~Matched(doc.elems[i], entries)
    /\ \E i \in 1..Len(doc.elems) : Matched(doc.elems[i], entries)
    /\ Len(entries) > 1

\* C7: an element whose path is not on disk gets no Entry from load: no
\* Entry with its path is created or changed; and a save keeps it as it is
\* when no Entry has its path.
C7_StaleSkipped ==
    [][ /\ (last'.op = "load" /\ doc.status = "ok")
           => \A i \in 1..Len(doc.elems) :
                Stale(doc.elems[i])
                => \A e \in 1..Len(entries') :
                     entries'[e].path = NamedPath(doc.elems[i])
                     => (e <= Len(entries) /\ entries'[e] = entries[e])
        /\ last'.op = "save"
           => SelectSeq(doc'.elems, LAMBDA x : Stale(x) /\ ~Matched(x, entries))
                = SelectSeq(doc.elems, LAMBDA x : Stale(x) /\ ~Matched(x, entries)) ]_vars

\* the tree was loaded, the document was written, and the stale element is
\* still there, after elements the save rewrote
C7_Witness ==
    /\ Wrote(last) /\ doc.status = "ok"
    /\ Len(entries) > 1
    /\ \E i \in 1..Len(doc.elems) :
         /\ Stale(doc.elems[i]) /\ ~Matched(doc.elems[i], entries)
         /\ \A e \in 2..Len(entries) : entries[e].path # NamedPath(doc.elems[i])
    /\ \E i \in 1..Len(doc.elems) : Matched(doc.elems[i], entries)

\* an Entry that says nothing but the name its path gives
DefaultOnly(file) == file.meta = [name |-> getCleanFileName(file.path), desc |-> ""]

\* an Entry with a key that is neither a default nor that name
SaysMore(file) ==
    \/ file.meta.desc # ""
    \/ file.meta.name \notin {"", getCleanFileName(file.path)}

\* the element of an Entry: its path first, then its non-default metadata
ElementOf(file) ==
    [tag  |-> TagOf(file),
     kids |-> <<PathKid(GenericString(file.path))>>
              \o (IF file.meta.name = "" THEN <<>> ELSE <<MetaKid("name", file.meta.name)>>)
              \o (IF file.meta.desc = "" THEN <<>> ELSE <<MetaKid("desc", file.meta.desc)>>)]

\* C5: in a document freshly written by save, an Entry whose only
\* non-default metadata is the name its path gives has no element, and an
\* Entry with any other non-default key has an element: its path first,
\* then its non-default metadata.
C5_DefaultElision ==
    [][ (doc.status = "absent" /\ Wrote(last'))
        => \A e \in 2..Len(entries) :
             /\ DefaultOnly(entries[e])
                => ~\E i \in 1..Len(doc'.elems) :
                      /\ doc'.elems[i].tag = TagOf(entries[e])
                      /\ NamedPath(doc'.elems[i]) = entries[e].path
             /\ SaysMore(entries[e])
                => \E i \in 1..Len(doc'.elems) :
                      doc'.elems[i] = ElementOf(entries[e]) ]_vars

-----------------------------------------------------------------------------
(* The shape of the tree.                                                  *)

\* entry e stands somewhere below entry f
RECURSIVE Under(_, _, _)
Under(ents, e, f) ==
    IF e <= 1 THEN FALSE
    ELSE ents[e].parent = f \/ Under(ents, ents[e].parent, f)

\* C11: after any sequence of findOrCreate and load operations from a tree
\* holding only the root, no two children of the same Entry have paths with
\* the same final component, also when a path reaches its target through a
\* symlink whose name differs from the canonical name.
C11_NoSiblingBasename ==
    \A a \in 2..Len(entries), b \in 2..Len(entries) :
        (a # b /\ entries[a].parent = entries[b].parent)
        => Filename(entries[a].path) # Filename(entries[b].path)

\* C12: after any sequence of findOrCreate and load operations from a tree
\* holding only the root, every Folder Entry other than the root has a Game
\* Entry below it, and no findOrCreate with kind Folder, nor a load of a
\* document with folder elements only, adds an Entry.
C12_FoldersLeadToGames ==
    /\ [](\A f \in 2..Len(entries) :
            entries[f].type = FOLDER
            => \E g \in 2..Len(entries) : entries[g].type = GAME /\ Under(entries, g, f))
    /\ [][ (\/ last'.op = "foc" /\ last'.type = FOLDER
            \/ /\ last'.op = "load"
               /\ \A i \in 1..Len(doc.elems) : doc.elems[i].tag = "folder")
           => Len(entries') = Len(entries) ]_vars

\* a Folder request came back empty-handed on a tree with a folder inside a
\* folder, none of them asked for
C12_Witness ==
    /\ last.op = "foc" /\ last.type = FOLDER /\ last.ret = NULL
    /\ InsideRoot(last.path)
    /\ \E f \in 2..Len(entries) :
         /\ entries[f].type = FOLDER
         /\ entries[f].parent > 1 /\ entries[entries[f].parent].type = FOLDER

\* C13: after any sequence of findOrCreate and load operations only Folder
\* Entries have children, also when a Game Entry's basename is an
\* intermediate component of a path requested later.
C13_OnlyFoldersHaveChildren ==
    \A e \in 2..Len(entries) : entries[entries[e].parent].type = FOLDER

-----------------------------------------------------------------------------
(* Saves and loads that must do nothing.                                   *)

\* C14: when the 'disable catalog writes' flag or the 'ignore persisted
\* catalog' flag is set, save leaves the persisted document exactly as it
\* was, for every tree and document.
C14_SaveSuppressed ==
    [][ (last'.op = "save" /\ (last'.dis \/ last'.ign)) => doc' = doc ]_vars

\* a save under the 'ignore persisted catalog' flag alone, of a tree that a
\* save allowed to write would have changed the document for
C14_Witness ==
    /\ last.op = "save" /\ last.ign /\ ~last.dis
    /\ Len(entries) > 1
    /\ updateGamelist(entries, doc, FALSE, FALSE, TRUE) # doc

\* C15: when the persisted document is malformed or has no root element,
\* load adds no Entry and changes no Entry's metadata, and save leaves the
\* persisted document unchanged.
C15_BrokenDocumentAborts ==
    [][ doc.status \in {"malformed", "noroot"}
        => /\ last'.op = "load" => entries' = entries
           /\ last'.op = "save" => doc' = doc ]_vars

\* a load of a malformed document whose parsed part holds a game element
\* that a load would attach
C15_Witness ==
    /\ last.op = "load" /\ doc.status = "malformed"
    /\ \E i \in 1..Len(doc.elems) :
         /\ doc.elems[i].tag = "game" /\ HasPath(doc.elems[i])
         /\ InsideRoot(NamedPath(doc.elems[i]))
    /\ entries = <<RootFolder>>

-----------------------------------------------------------------------------
(* What a save and a load leave.                                           *)

\* C16: after a successful save every Entry whose element is not elided as
\* default-only has, in the document, an element of its tag and path whose
\* metadata children are the Entry's current non-default metadata; for
\* every tree findOrCreate can build, folders nested more than one level
\* deep and distinct Entries with the same stored path included.
C16_EntriesReflected ==
    [][ (Wrote(last') /\ doc.status \in {"absent", "ok"})
        => /\ doc'.status = "ok"
           /\ \A e \in 2..Len(entries) :
                ~DefaultOnly(entries[e])
                => \E i \in 1..Len(doc'.elems) :
                      doc'.elems[i] = ElementOf(entries[e]) ]_vars

\* a game element of the document that load attaches below the folder the
\* folder element names
GameBelow(elems, folderElem) ==
    \E j \in 1..Len(elems) :
        /\ elems[j].tag = "game" /\ HasPath(elems[j])
        /\ InsideRoot(NamedPath(elems[j]))
        /\ StrictlyInside(Canonical(NamedPath(elems[j])), Canonical(NamedPath(folderElem)))

\* C17: load processes the game elements before the folder elements,
\* whatever their order in the document: a folder element naming an
\* ancestor folder of a listed, existing, contained game has its metadata on
\* the Folder Entry created for that game, also when it precedes the game
\* element; a folder element naming a folder no game created is skipped.
C17_GamesBeforeFolders ==
    [][ (last'.op = "load" /\ doc.status = "ok")
        => \A i \in 1..Len(doc.elems) :
             (/\ doc.elems[i].tag = "folder" /\ HasPath(doc.elems[i])
              /\ InsideRoot(NamedPath(doc.elems[i])))
             => IF GameBelow(doc.elems, doc.elems[i])
                THEN \E e \in 2..Len(entries') :
                        /\ entries'[e].type = FOLDER
                        /\ Position(entries', e) = RelativeOf(NamedPath(doc.elems[i]), StartPath)
                        /\ entries'[e].meta.desc = TextOfChild(doc.elems[i], "desc")
                ELSE \A e \in 2..Len(entries') :
                        Position(entries', e) # RelativeOf(NamedPath(doc.elems[i]), StartPath) ]_vars

\* a loaded document whose folder element comes before the game element
\* below it, the folder's description on the Folder Entry
C17_Witness ==
    /\ last.op = "load" /\ doc.status = "ok" /\ Len(doc.elems) = 2
    /\ doc.elems[1].tag = "folder" /\ doc.elems[2].tag = "game"
    /\ GameBelow(doc.elems, doc.elems[1])
    /\ \E e \in 2..Len(entries) :
         /\ entries[e].type = FOLDER
         /\ entries[e].meta.desc = "d"

Max(S) == CHOOSE x \in S : \A y \in S : x >= y

\* the elements of the document that load attaches to entry e of ents: of
\* its tag, on disk, inside the root, leading where e stands or naming e's path
Attached(elems, ents, e) ==
    { i \in 1..Len(elems) :
        /\ elems[i].tag = TagOf(ents[e]) /\ HasPath(elems[i])
        /\ InsideRoot(NamedPath(elems[i]))
        /\ \/ RelativeOf(NamedPath(elems[i]), StartPath) = Position(ents, e)
           \/ NamedPath(elems[i]) = ents[e].path }

\* the name after the elements at is: the last one given, else the name n0
RECURSIVE NameAfter(_, _, _)
NameAfter(elems, is, n0) ==
    IF is = {} THEN n0
    ELSE IF TextOfChild(elems[Max(is)], "name") # "" THEN TextOfChild(elems[Max(is)], "name")
    ELSE NameAfter(elems, is \ {Max(is)}, n0)

\* the name entry e had before the load: its own, or the one its path gave it
NameBefore(old, new, e) ==
    IF e <= Len(old) THEN old[e].meta.name ELSE getCleanFileName(new[e].path)

\* C18: for every element load attaches to an Entry, the Entry's metadata
\* afterwards is the metadata parsed from the element, except that when the
\* element gives no name the name the Entry had before is restored; so every
\* Entry touched by load has a non-empty name whenever it had one before.
C18_LoadNames ==
    [][ (last'.op = "load" /\ doc.status = "ok")
        => \A e \in 2..Len(entries') :
             LET at == Attached(doc.elems, entries', e)
                 n0 == NameBefore(entries, entries', e)
             IN  at # {}
                 => /\ entries'[e].meta.desc = TextOfChild(doc.elems[Max(at)], "desc")
                    /\ entries'[e].meta.name = NameAfter(doc.elems, at, n0)
                    /\ n0 # "" => entries'[e].meta.name # "" ]_vars

\* an Entry named by one element and described by a later element that
\* gives no name
C18_Witness ==
    /\ last.op = "load" /\ doc.status = "ok"
    /\ \E e \in 2..Len(entries) :
         LET at == Attached(doc.elems, entries, e)
         IN  /\ Cardinality(at) = 2
             /\ TextOfChild(doc.elems[Max(at)], "name") = ""
             /\ entries[e].meta = [name |-> "X", desc |-> "d"]

\* an element load has to skip: no path on disk, a path not inside the
\* root, or a folder element where no Entry of the tree ents stands
Skipped(elem, ents) ==
    \/ ~HasPath(elem)
    \/ ~InsideRoot(NamedPath(elem))
    \/ /\ elem.tag = "folder"
       /\ \A e \in 2..Len(ents) : Position(ents, e) # RelativeOf(NamedPath(elem), StartPath)

\* C19: load skips an element whose path is not on disk, lies outside the
\* root, or is a folder element with no Folder Entry, without changing the
\* tree, and still processes every later element: the tree after the load
\* is the one the document without those elements gives, and no call made
\* for an element raises an error.
C19_BadElementsSkipped ==
    [][ (last'.op = "load" /\ doc.status = "ok")
        => /\ entries' \in parseGamelist(entries,
                  [doc EXCEPT !.elems = SelectSeq(doc.elems,
                                                  LAMBDA x : ~Skipped(x, entries'))])
           /\ (\A i \in 1..Len(doc.elems) : Skipped(doc.elems[i], entries'))
                => entries' = entries
           /\ \A i \in 1..Len(doc.elems) :
                Exists(PathOfNode(doc.elems[i]))
                => \A f \in FindOrCreateOutcomes(entries, PathOfNode(doc.elems[i]),
                                                 IF doc.elems[i].tag = "game"
                                                 THEN GAME ELSE FOLDER) :
                      f.ret # THREW ]_vars

\* a load that met an element to skip before an element it attached
C19_Witness ==
    /\ last.op = "load" /\ doc.status = "ok" /\ Len(doc.elems) = 2
    /\ Skipped(doc.elems[1], entries)
    /\ doc.elems[2].tag = "game" /\ ~Skipped(doc.elems[2], entries)
    /\ \E e \in 2..Len(entries) :
         /\ entries[e].path = NamedPath(doc.elems[2])
         /\ entries[e].meta.name = "X"

\* C20: in removeCommonPath the walk along the shared prefix never reads a
\* component at or past the end of either canonical path, for every pair of
\* existing paths, the path equal to the root and the path a proper
\* ancestor of the root included.
C20_NoReadPastEnd ==
    (rcpOut.done /\ Exists(rcpIn.path) /\ Exists(rcpIn.relativeTo)) => ~rcpOut.oob

====
